---- MODULE Spec2Model ----
(***************************************************************************)
(* The challenge session engine of Quizzo (src/app.py): the rows of the    *)
(* Challenge, ChallengeQuestion, ChallengeSession and ChallengeAnswer      *)
(* tables, the student routes start_challenge, take_challenge,             *)
(* submit_challenge_answer and challenge_results, the scoring function     *)
(* calculate_challenge_points, and the maintenance script                  *)
(* src/fix_stuck_sessions.py.                                              *)
(*                                                                         *)
(* Spec runs the requests one at a time (each route is one action);        *)
(* SpecToggle adds the lecturer's toggle_challenge_status and SpecFix the  *)
(* maintenance script. SpecRace runs two requests at once, each route cut  *)
(* at its database queries and its commit: every query reads the committed *)
(* rows (READ COMMITTED on PostgreSQL, autocommit reads on SQLite).        *)
(***************************************************************************)
EXTENDS Integers, Sequences, FiniteSets, TLC

VARIABLES
    challenge,  \* Challenge rows, by id
    sessions,   \* ChallengeSession rows; the primary key is the position
    answers,    \* ChallengeAnswer rows (nth stands for the primary key)
    clock,      \* datetime.now(timezone.utc), in ticks
    fix,        \* fix_stuck_sessions.py: the sessions it still has to visit
    procs       \* SpecRace: the requests in flight, one per worker

vars == <<challenge, sessions, answers, clock, fix, procs>>

----------------------------------------------------------------------------
(* Bounds of the model *)

MaxSessions == 2
MaxAnswers == 2
MaxTicks == 1
SecondsPerTick == 40

Students == {1, 2}
Challenges == {1, 2}
Workers == {1, 2}

----------------------------------------------------------------------------
(* Text: a string is a sequence of characters; None is Python's None. *)

None == <<"NONE">>
NoTime == -1

Lower(c) == IF c = "Y" THEN "y" ELSE c

IsSpace(c) == c = " "

RECURSIVE LStrip(_)
LStrip(t) == IF t # <<>> /\ IsSpace(Head(t)) THEN LStrip(Tail(t)) ELSE t

RECURSIVE RStrip(_)
RStrip(t) ==
    IF t # <<>> /\ IsSpace(t[Len(t)]) THEN RStrip(SubSeq(t, 1, Len(t) - 1)) ELSE t

\* str.strip().lower()
StripLower(t) == LET s == RStrip(LStrip(t)) IN [i \in 1..Len(s) |-> Lower(s[i])]

\* the answers a form can carry: nothing, the exact option text, and the
\* same word in another case after a blank
AnswerTexts == { <<>>, <<"Y">>, <<" ", "y">> }

\* the forms: (answer, auto_submit); the script of the page sets auto_submit
\* when the timer runs out, with the answer picked so far
Forms == (AnswerTexts \X {FALSE}) \cup {<< <<>>, TRUE >>}

----------------------------------------------------------------------------
(* The questions. create_challenge numbers order_index from 0 in the order  *)
(* of insertion and never sets the answer column (it stays NULL); no route  *)
(* edits a question. Questions 1 and 3 are multiple choice, question 2 is  *)
(* a text question as create_challenge stores it.                           *)

Question ==
    << [id |-> 1, challenge_id |-> 1, order_index |-> 0,
        question_type |-> "multiple_choice",
        option_a |-> <<"Y">>, option_b |-> <<"n">>,
        option_c |-> <<"y">>, option_d |-> None,
        correct_option |-> "A", answer |-> None],
       [id |-> 2, challenge_id |-> 1, order_index |-> 1,
        question_type |-> "text",
        option_a |-> None, option_b |-> None,
        option_c |-> None, option_d |-> None,
        correct_option |-> "", answer |-> None],
       [id |-> 3, challenge_id |-> 2, order_index |-> 0,
        question_type |-> "multiple_choice",
        option_a |-> <<"y">>, option_b |-> <<"Y">>,
        option_c |-> <<>>, option_d |-> <<>>,
        correct_option |-> "B", answer |-> None] >>

QuestionIds == 1..Len(Question)

\* ChallengeQuestion.query.filter_by(challenge_id=c): the rows go with their
\* challenge (delete_challenge deletes both)
QuestionsOf(c) ==
    IF challenge[c].exists THEN {q \in QuestionIds : Question[q].challenge_id = c}
    ELSE {}

QuestionExists(q) == q \in QuestionIds /\ challenge[Question[q].challenge_id].exists

\* ... .order_by(ChallengeQuestion.order_index).all()
RECURSIVE OrderedQuestions(_)
OrderedQuestions(qs) ==
    IF qs = {} THEN <<>>
    ELSE LET q == CHOOSE x \in qs : \A y \in qs :
                      \/ Question[x].order_index < Question[y].order_index
                      \/ /\ Question[x].order_index = Question[y].order_index
                         /\ x <= y
         IN <<q>> \o OrderedQuestions(qs \ {q})
----------------------------------------------------------------------------
(* Table queries *)

\* ChallengeSession.query.get_or_404(session_id); a deleted row keeps its
\* place, so that a primary key is never used twice
NoSession ==
    [student_id |-> 0, challenge_id |-> 0, status |-> "deleted",
     start_time |-> NoTime, end_time |-> NoTime, score |-> 0,
     percentage |-> 0, points |-> 0, points_breakdown |-> <<>>]

SessionExists(tbl, sid) == sid \in 1..Len(tbl) /\ tbl[sid].status # "deleted"

\* ChallengeSession.query.filter_by(challenge_id=c, student_id=s)
SessionsOf(tbl, s, c) ==
    {i \in 1..Len(tbl) : tbl[i].student_id = s /\ tbl[i].challenge_id = c}

\* ... .filter_by(challenge_id=c, student_id=s, status='in_progress')
OngoingSessions(tbl, s, c) ==
    {i \in SessionsOf(tbl, s, c) : tbl[i].status = "in_progress"}

\* ChallengeAnswer.query.filter_by(session_id=sid).all()
AnswersOfSession(rows, sid) == {r \in rows : r.session_id = sid}

\* [ans.question_id for ans in answered_questions]
AnsweredQuestionIds(rows, sid) == {r.question_id : r \in AnswersOfSession(rows, sid)}

\* sum(1 for ans in answered_questions if ans.is_correct)
CorrectAnswers(rows, sid) ==
    Cardinality({r \in AnswersOfSession(rows, sid) : r.is_correct})

\* ChallengeAnswer.query.filter_by(session_id=sid, question_id=q)
AnswersTo(rows, sid, q) == {r \in AnswersOfSession(rows, sid) : r.question_id = q}

\* ... .first()
\* the route without its existing_answer query
ExistingAnswerNotQueried(rows, sid, q) == FALSE

ExistingAnswer(rows, sid, q) == AnswersTo(rows, sid, q) # {}

----------------------------------------------------------------------------
(* Python's round() of the quotient num / den: round half to even *)

PyRound(num, den) ==
    LET q == num \div den
        r == num % den
    IN IF 2 * r < den THEN q
       ELSE IF 2 * r > den THEN q + 1
       ELSE IF q % 2 = 0 THEN q ELSE q + 1

Seconds(t) == t * SecondsPerTick

----------------------------------------------------------------------------
(* calculate_challenge_points(session_obj, challenge, total_questions).     *)
(* tbl holds session_obj's new score, percentage, status and end_time: the  *)
(* first_completion query flushes them before it reads.                     *)

BasePoints == 50
PointsPerCorrect == 10

\* the completion tiers with the boundary percentages left out
CompletionBonusStrict(percentage) ==
    IF percentage > 90 THEN 50
    ELSE IF percentage > 80 THEN 30
    ELSE IF percentage > 70 THEN 20
    ELSE IF percentage > 60 THEN 10
    ELSE 0

\* taken / allowed <= num / den, for a divisor of either sign (den > 0)
RatioAtMost(taken, allowed, num, den) ==
    IF allowed > 0 THEN den * taken <= num * allowed
    ELSE den * taken >= num * allowed

SpeedBonus(limit_minutes, start_time, end_time) ==
    IF limit_minutes # 0 /\ end_time # NoTime /\ start_time # NoTime
    THEN LET taken == Seconds(end_time) - Seconds(start_time)
             allowed == limit_minutes * 60
         IN IF RatioAtMost(taken, allowed, 5, 10) THEN 100         \* <= 0.5
            ELSE IF RatioAtMost(taken, allowed, 7, 10) THEN 50     \* <= 0.7
            ELSE IF RatioAtMost(taken, allowed, 85, 100) THEN 25   \* <= 0.85
            ELSE 0
    ELSE 0

CompletionBonus(percentage) ==
    IF percentage >= 90 THEN 50
    ELSE IF percentage >= 80 THEN 30
    ELSE IF percentage >= 70 THEN 20
    ELSE IF percentage >= 60 THEN 10
    ELSE 0

\* the query matching another session that ended no later
EarlierCompletionOrSame(tbl, sid) ==
    \E i \in (1..Len(tbl)) \ {sid} :
        /\ tbl[i].challenge_id = tbl[sid].challenge_id
        /\ tbl[i].status = "completed"
        /\ tbl[i].end_time # NoTime
        /\ tbl[i].end_time <= tbl[sid].end_time

\* ChallengeSession.query.filter(challenge_id == c, status == 'completed',
\*                               end_time < session_obj.end_time).first()
EarlierCompletion(tbl, sid) ==
    \E i \in 1..Len(tbl) :
        /\ tbl[i].challenge_id = tbl[sid].challenge_id
        /\ tbl[i].status = "completed"
        /\ tbl[i].end_time # NoTime
        /\ tbl[i].end_time < tbl[sid].end_time

FirstCompletionBonus(tbl, sid) == IF ~EarlierCompletion(tbl, sid) THEN 100 ELSE 0

CalculateChallengePoints(tbl, sid, limit_minutes) ==
    LET s == tbl[sid]
        base == BasePoints
        correct == s.score * PointsPerCorrect
        speed == SpeedBonus(limit_minutes, s.start_time, s.end_time)
        completion == CompletionBonus(s.percentage)
        first == FirstCompletionBonus(tbl, sid)
    IN [base_points |-> base, correctness_bonus |-> correct,
        speed_bonus |-> speed, completion_bonus |-> completion,
        first_completion_bonus |-> first,
        total |-> base + correct + speed + completion + first]

----------------------------------------------------------------------------
(* The answer check of submit_challenge_answer (lines 6541-6562).           *)

\* correct_answer of a multiple_choice question
CorrectOptionText(q) ==
    IF q.correct_option = "A" THEN q.option_a
    ELSE IF q.correct_option = "B" THEN q.option_b
    ELSE IF q.correct_option = "C" THEN q.option_c
    ELSE IF q.correct_option = "D" THEN q.option_d
    ELSE None

\* question.answer.strip() raises AttributeError when the key is None
ValidationRaises(q, answer) ==
    answer # <<>> /\ q.question_type # "multiple_choice" /\ q.answer = None

IsCorrect(q, answer) ==
    IF answer = <<>> THEN FALSE
    ELSE IF q.question_type = "multiple_choice" THEN answer = CorrectOptionText(q)
    ELSE StripLower(answer) = StripLower(q.answer)
----------------------------------------------------------------------------
(* State *)

\* a worker with no request; pc names the query a request has reached, id
\* is its challenge_id or session_id
NoRequest == [pc |-> "idle", student |-> 0, id |-> 0, q |-> 0, answer |-> <<>>]

\* Two challenges as create_challenge stores them: challenge 1 timed (one
\* minute) with two attempts, challenge 2 untimed with one attempt.
InitialChallenges ==
    [c \in Challenges |->
        IF c = 1
        THEN [exists |-> TRUE, is_active |-> TRUE,
              max_attempts |-> 2, time_limit_minutes |-> 1]
        ELSE [exists |-> TRUE, is_active |-> TRUE,
              max_attempts |-> 1, time_limit_minutes |-> 0]]

Init ==
    /\ challenge = InitialChallenges
    /\ sessions = <<>>
    /\ answers = {}
    /\ clock = 0
    /\ fix = <<>>
    /\ procs = [w \in Workers |-> NoRequest]

\* no request and no script run is under way
Quiet == fix = <<>> /\ \A w \in Workers : procs[w].pc = "idle"

Tick ==
    /\ clock < MaxTicks
    /\ clock' = clock + 1
    /\ UNCHANGED <<challenge, sessions, answers, fix, procs>>

----------------------------------------------------------------------------
(* start_challenge (lines 6356-6424) *)

\* an attempt count over the completed sessions alone
AttemptCountCompleted(tbl, s, c) ==
    Cardinality({i \in SessionsOf(tbl, s, c) : tbl[i].status = "completed"})

AttemptCount(tbl, s, c) == Cardinality(SessionsOf(tbl, s, c))

AttemptLimitReached(tbl, s, c, max_attempts) ==
    max_attempts # 0 /\ AttemptCount(tbl, s, c) >= max_attempts

NewSession(s, c, now) ==
    [student_id |-> s, challenge_id |-> c, status |-> "in_progress",
     start_time |-> now, end_time |-> NoTime, score |-> 0,
     percentage |-> 0, points |-> 0, points_breakdown |-> <<>>]

\* the checks without the is_active test
StartCheckIgnoringActive(s, c) ==
    IF ~challenge[c].exists THEN "error"
    ELSE IF QuestionsOf(c) = {} THEN "no_questions"
    ELSE IF AttemptLimitReached(sessions, s, c, challenge[c].max_attempts)
         THEN "limit"
    ELSE "pass"

\* lines 6364-6393: the checks before the ongoing_session query
StartCheck(s, c) ==
    IF ~challenge[c].exists THEN "error"                     \* get_or_404
    ELSE IF ~challenge[c].is_active THEN "unavailable"
    ELSE IF QuestionsOf(c) = {} THEN "no_questions"
    ELSE IF AttemptLimitReached(sessions, s, c, challenge[c].max_attempts)
         THEN "limit"
    ELSE "pass"

\* lines 6395-6419
StartOutcome(s, c) ==
    IF StartCheck(s, c) # "pass" THEN StartCheck(s, c)
    ELSE IF OngoingSessions(sessions, s, c) # {} THEN "resumed"
    ELSE "created"

\* the session the redirect names: ongoing_session (.first(): any of the
\* rows found) or new_session
StartSessions(s, c) ==
    IF StartOutcome(s, c) = "resumed" THEN OngoingSessions(sessions, s, c)
    ELSE IF StartOutcome(s, c) = "created" THEN {Len(sessions) + 1}
    ELSE {}

StartChallenge(s, c) ==
    /\ Quiet
    /\ IF StartOutcome(s, c) = "created"
       THEN /\ Len(sessions) < MaxSessions
            /\ sessions' = Append(sessions, NewSession(s, c, clock))
       ELSE UNCHANGED sessions      \* a redirect, with or without a flash
    /\ UNCHANGED <<challenge, answers, clock, fix, procs>>

----------------------------------------------------------------------------
(* take_challenge (lines 6426-6507) *)

\* the first question, in order_index order, whose id is not among the
\* answered ids; 0 when there is none (current_question is None)
RECURSIVE FirstUnanswered(_, _)
\* the first question whether answered or not
FirstQuestion(questions, answered) ==
    IF questions = <<>> THEN 0 ELSE Head(questions)

FirstUnanswered(questions, answered) ==
    IF questions = <<>> THEN 0
    ELSE IF Head(questions) \notin answered THEN Head(questions)
    ELSE FirstUnanswered(Tail(questions), answered)

\* no question left, whatever has been answered
CurrentQuestionNone(rows, sid, c) == 0

CurrentQuestion(rows, sid, c) ==
    FirstUnanswered(OrderedQuestions(QuestionsOf(c)), AnsweredQuestionIds(rows, sid))

\* the completion without its end_time (line 6474)
CompleteSessionOpenEnded(tbl, rows, sid, now) ==
    LET c == tbl[sid].challenge_id
        total == Cardinality(QuestionsOf(c))
        correct == CorrectAnswers(rows, sid)
        t1 == [tbl EXCEPT ![sid].score = correct,
                          ![sid].percentage = PyRound(100 * correct, total),
                          ![sid].status = "completed"]
        pb == CalculateChallengePoints(t1, sid, challenge[c].time_limit_minutes)
    IN [t1 EXCEPT ![sid].points = pb.total, ![sid].points_breakdown = <<pb>>]

\* lines 6468-6481
CompleteSession(tbl, rows, sid, now) ==
    LET c == tbl[sid].challenge_id
        total == Cardinality(QuestionsOf(c))
        correct == CorrectAnswers(rows, sid)
        t1 == [tbl EXCEPT ![sid].score = correct,
                          ![sid].percentage = PyRound(100 * correct, total),
                          ![sid].status = "completed",
                          ![sid].end_time = now]
        pb == CalculateChallengePoints(t1, sid, challenge[c].time_limit_minutes)
    IN [t1 EXCEPT ![sid].points = pb.total, ![sid].points_breakdown = <<pb>>]

\* the route without its redirect for a completed session
TakeOutcomeRecomputing(s, sid) ==
    IF ~SessionExists(sessions, sid) THEN "error"
    ELSE IF sessions[sid].student_id # s THEN "denied"
    ELSE IF ~challenge[sessions[sid].challenge_id].exists THEN "error"
    ELSE IF QuestionsOf(sessions[sid].challenge_id) = {} THEN "no_questions"
    ELSE IF CurrentQuestion(answers, sid, sessions[sid].challenge_id) = 0
         THEN "completed"
    ELSE "question"

TakeOutcome(s, sid) ==
    IF ~SessionExists(sessions, sid) THEN "error"            \* get_or_404
    ELSE IF sessions[sid].student_id # s THEN "denied"
    ELSE IF sessions[sid].status = "completed" THEN "results"
    ELSE IF ~challenge[sessions[sid].challenge_id].exists THEN "error"
    ELSE IF QuestionsOf(sessions[sid].challenge_id) = {} THEN "no_questions"
    ELSE IF CurrentQuestion(answers, sid, sessions[sid].challenge_id) = 0
         THEN "completed"
    ELSE "question"

\* question=current_question of the rendered page
TakeQuestion(s, sid) ==
    IF TakeOutcome(s, sid) = "question"
    THEN CurrentQuestion(answers, sid, sessions[sid].challenge_id)
    ELSE 0

TakeChallenge(s, sid) ==
    /\ Quiet
    /\ IF TakeOutcome(s, sid) = "completed"
       THEN sessions' = CompleteSession(sessions, answers, sid, clock)
       ELSE UNCHANGED sessions      \* a redirect or the page of TakeQuestion
    /\ UNCHANGED <<challenge, answers, clock, fix, procs>>

----------------------------------------------------------------------------
(* submit_challenge_answer (lines 6509-6601) *)

\* answer=answer or '', is_correct=is_correct
NewAnswer(rows, sid, q, answer) ==
    [session_id |-> sid, question_id |-> q, answer |-> answer,
     is_correct |-> IsCorrect(Question[q], answer),
     nth |-> Cardinality(AnswersTo(rows, sid, q)) + 1]

\* the checks without the owner test
SubmitCheckAnyStudent(s, sid, q, answer, auto) ==
    IF ~SessionExists(sessions, sid) THEN "error"
    ELSE IF sessions[sid].status = "completed" THEN "results"
    ELSE IF answer = <<>> /\ ~auto THEN "no_answer"
    ELSE IF ~QuestionExists(q) THEN "error"
    ELSE IF ValidationRaises(Question[q], answer) THEN "error"
    ELSE "pass"

\* lines 6517-6562: the checks before the existing_answer query
SubmitCheck(s, sid, q, answer, auto) ==
    IF ~SessionExists(sessions, sid) THEN "error"            \* get_or_404
    ELSE IF sessions[sid].student_id # s THEN "denied"
    ELSE IF sessions[sid].status = "completed" THEN "results"
    ELSE IF answer = <<>> /\ ~auto THEN "no_answer"
    ELSE IF ~QuestionExists(q) THEN "error"                  \* get_or_404
    ELSE IF ValidationRaises(Question[q], answer) THEN "error"
    ELSE "pass"

\* lines 6564-6596
SubmitOutcome(s, sid, q, answer, auto) ==
    IF SubmitCheck(s, sid, q, answer, auto) # "pass"
    THEN SubmitCheck(s, sid, q, answer, auto)
    ELSE IF ExistingAnswer(answers, sid, q) THEN "already_answered"
    ELSE "saved"

\* the route completing the session itself after the last answer
SubmitChallengeAnswerCompleting(s, sid, q, answer, auto) ==
    /\ Quiet
    /\ IF SubmitOutcome(s, sid, q, answer, auto) = "saved"
       THEN /\ Cardinality(answers) < MaxAnswers
            /\ answers' = answers \cup {NewAnswer(answers, sid, q, answer)}
            /\ LET rows == answers \cup {NewAnswer(answers, sid, q, answer)}
               IN IF CurrentQuestion(rows, sid, sessions[sid].challenge_id) = 0
                  THEN sessions' = CompleteSession(sessions, rows, sid, clock)
                  ELSE UNCHANGED sessions
       ELSE UNCHANGED <<answers, sessions>>
    /\ UNCHANGED <<challenge, clock, fix, procs>>

SubmitChallengeAnswer(s, sid, q, answer, auto) ==
    /\ Quiet
    /\ IF SubmitOutcome(s, sid, q, answer, auto) = "saved"
       THEN /\ Cardinality(answers) < MaxAnswers
            /\ answers' = answers \cup {NewAnswer(answers, sid, q, answer)}
       ELSE UNCHANGED answers
    /\ UNCHANGED <<challenge, sessions, clock, fix, procs>>

----------------------------------------------------------------------------
(* challenge_results (lines 6603-6690) *)

ResultsOutcome(s, sid) ==
    IF ~SessionExists(sessions, sid) THEN "error"            \* get_or_404
    ELSE IF sessions[sid].student_id # s THEN "denied"
    ELSE IF sessions[sid].status # "completed" THEN "take"
    ELSE IF ~challenge[sessions[sid].challenge_id].exists THEN "error"
    ELSE "shown"

\* lines 6624-6634
RecomputedSession(row, rows, sid) ==
    LET total == Cardinality(QuestionsOf(row.challenge_id))
        correct == CorrectAnswers(rows, sid)
        percentage == IF total > 0 THEN PyRound(100 * correct, total) ELSE 0
    IN IF row.score # correct \/ row.percentage # percentage
       THEN [row EXCEPT !.score = correct, !.percentage = percentage]
       ELSE row

ChallengeResults(s, sid) ==
    /\ Quiet
    /\ IF ResultsOutcome(s, sid) = "shown"
       THEN sessions' = [sessions EXCEPT
                            ![sid] = RecomputedSession(sessions[sid], answers, sid)]
       ELSE UNCHANGED sessions
    /\ UNCHANGED <<challenge, answers, clock, fix, procs>>

----------------------------------------------------------------------------
(* The disqualification signal of the monitoring collaborator: no route of  *)
(* src/ writes status 'abandoned' (the column's comment at line 2819 lists  *)
(* it); it ends an in_progress session and stamps end_time.                 *)

Abandon(sid) ==
    /\ Quiet
    /\ SessionExists(sessions, sid)
    /\ sessions[sid].status = "in_progress"
    /\ sessions' = [sessions EXCEPT ![sid].status = "abandoned",
                                    ![sid].end_time = clock]
    /\ UNCHANGED <<challenge, answers, clock, fix, procs>>

----------------------------------------------------------------------------
(* fix_stuck_sessions.py: one run is the query of line 17 and then one pass *)
(* of the loop (lines 19-68, with its own commit) per session found.        *)

RECURSIVE Ascending(_)
Ascending(ids) ==
    IF ids = {} THEN <<>>
    ELSE LET m == CHOOSE x \in ids : \A y \in ids : x <= y
         IN <<m>> \o Ascending(ids \ {m})

\* ChallengeSession.query.filter_by(status='in_progress').all()
StuckSessions(tbl) == {i \in 1..Len(tbl) : tbl[i].status = "in_progress"}

FixStuckBegin ==
    /\ Quiet
    /\ StuckSessions(sessions) # {}
    /\ fix' = Ascending(StuckSessions(sessions))
    /\ UNCHANGED <<challenge, sessions, answers, clock, procs>>

\* ChallengeAnswer.query.filter_by(session_id=sid).count()
AnsweredCount(rows, sid) == Cardinality(AnswersOfSession(rows, sid))

\* lines 31-64; without its challenge calculate_challenge_points raises and
\* the except branch stores base and correctness points only
FixCompleteSession(tbl, rows, sid, now) ==
    LET c == tbl[sid].challenge_id
        total == Cardinality(QuestionsOf(c))
        correct == CorrectAnswers(rows, sid)
        t1 == [tbl EXCEPT ![sid].score = correct,
                          ![sid].percentage = PyRound(100 * correct, total),
                          ![sid].status = "completed",
                          ![sid].end_time = now]
    IN IF challenge[c].exists
       THEN LET pb == CalculateChallengePoints(t1, sid,
                          challenge[c].time_limit_minutes)
            IN [t1 EXCEPT ![sid].points = pb.total,
                          ![sid].points_breakdown = <<pb>>]
       ELSE [t1 EXCEPT ![sid].points = BasePoints + correct * PointsPerCorrect]

FixShouldComplete(tbl, rows, sid) ==
    LET total == Cardinality(QuestionsOf(tbl[sid].challenge_id))
    IN AnsweredCount(rows, sid) >= total /\ total > 0

FixStuckStep ==
    /\ fix # <<>>
    /\ LET sid == Head(fix) IN
       IF ~SessionExists(sessions, sid)
       THEN \* the row is gone: the refresh raises and the run ends
            /\ fix' = <<>>
            /\ UNCHANGED sessions
       ELSE /\ fix' = Tail(fix)
            /\ IF FixShouldComplete(sessions, answers, sid)
               THEN sessions' = FixCompleteSession(sessions, answers, sid, clock)
               ELSE UNCHANGED sessions
    /\ UNCHANGED <<challenge, answers, clock, procs>>

----------------------------------------------------------------------------
(* toggle_challenge_status (lines 6021-6038), by the challenge's lecturer *)

ToggleChallengeStatus(c) ==
    /\ Quiet
    /\ challenge[c].exists
    /\ challenge' = [challenge EXCEPT ![c].is_active = ~challenge[c].is_active]
    /\ UNCHANGED <<sessions, answers, clock, fix, procs>>

----------------------------------------------------------------------------
(* edit_challenge (lines 5992-6016) and delete_challenge (lines 6040-6067), *)
(* by the challenge's lecturer                                              *)

\* int(request.form.get('time_limit_minutes')) or None, and max_attempts
EditLimits == {0, 1}
EditAttempts == {1, 2}
\* the challenges of the lecturer who edits
EditedChallenges == {1}

EditChallenge(c, limit, attempts, active) ==
    /\ Quiet
    /\ challenge[c].exists
    /\ challenge' = [challenge EXCEPT ![c].time_limit_minutes = limit,
                                      ![c].max_attempts = attempts,
                                      ![c].is_active = active]
    /\ UNCHANGED <<sessions, answers, clock, fix, procs>>

\* the answers, the sessions and the questions of the challenge go with it
DeleteChallenge(c) ==
    /\ Quiet
    /\ challenge[c].exists
    /\ answers' = {r \in answers : sessions[r.session_id].challenge_id # c}
    /\ sessions' = [i \in 1..Len(sessions) |->
                       IF sessions[i].challenge_id = c THEN NoSession
                       ELSE sessions[i]]
    /\ challenge' = [challenge EXCEPT ![c].exists = FALSE]
    /\ UNCHANGED <<clock, fix, procs>>

----------------------------------------------------------------------------
(* Two requests at once. A worker runs one request; a step is one query of  *)
(* the route together with the Python code up to the next query, or the     *)
(* insert with its commit. The Challenge and ChallengeQuestion rows do not  *)
(* change here, so the queries that read only them go with the next query.  *)

Finish(w) == procs' = [procs EXCEPT ![w] = NoRequest]

Goto(w, pc, s, id, q, answer) ==
    procs' = [procs EXCEPT ![w] = [pc |-> pc, student |-> s, id |-> id,
                                   q |-> q, answer |-> answer]]

\* start_challenge, lines 6364-6393: up to the attempt_count query
RaceStartCheck(w, s, c) ==
    /\ procs[w].pc = "idle"
    /\ IF StartCheck(s, c) = "pass"
       THEN Goto(w, "start_ongoing", s, c, 0, <<>>)
       ELSE UNCHANGED procs
    /\ UNCHANGED <<challenge, sessions, answers, clock, fix>>

\* lines 6395-6404: the ongoing_session query
RaceStartOngoing(w) ==
    /\ procs[w].pc = "start_ongoing"
    /\ IF OngoingSessions(sessions, procs[w].student, procs[w].id) # {}
       THEN Finish(w)
       ELSE Goto(w, "start_insert", procs[w].student, procs[w].id, 0, <<>>)
    /\ UNCHANGED <<challenge, sessions, answers, clock, fix>>

\* lines 6406-6419: db.session.add(new_session); db.session.commit()
RaceStartInsert(w) ==
    /\ procs[w].pc = "start_insert"
    /\ Len(sessions) < MaxSessions
    /\ sessions' = Append(sessions, NewSession(procs[w].student, procs[w].id, clock))
    /\ Finish(w)
    /\ UNCHANGED <<challenge, answers, clock, fix>>

\* submit_challenge_answer, lines 6517-6562: up to the answer check
RaceSubmitCheck(w, s, sid, q, answer, auto) ==
    /\ procs[w].pc = "idle"
    /\ IF SubmitCheck(s, sid, q, answer, auto) = "pass"
       THEN Goto(w, "submit_existing", s, sid, q, answer)
       ELSE UNCHANGED procs
    /\ UNCHANGED <<challenge, sessions, answers, clock, fix>>

\* lines 6564-6572: the existing_answer query
RaceSubmitExisting(w) ==
    /\ procs[w].pc = "submit_existing"
    /\ IF ExistingAnswer(answers, procs[w].id, procs[w].q)
       THEN Finish(w)
       ELSE Goto(w, "submit_insert", procs[w].student, procs[w].id,
                 procs[w].q, procs[w].answer)
    /\ UNCHANGED <<challenge, sessions, answers, clock, fix>>

\* lines 6574-6584: db.session.add(challenge_answer); db.session.commit()
RaceSubmitInsert(w) ==
    /\ procs[w].pc = "submit_insert"
    /\ Cardinality(answers) < MaxAnswers
    /\ answers' = answers \cup
                    {NewAnswer(answers, procs[w].id, procs[w].q, procs[w].answer)}
    /\ Finish(w)
    /\ UNCHANGED <<challenge, sessions, clock, fix>>

RaceForms == {<< <<"Y">>, FALSE >>, << <<>>, TRUE >>}

NextRace ==
    \/ \E w \in Workers, s \in Students, c \in Challenges : RaceStartCheck(w, s, c)
    \/ \E w \in Workers : RaceStartOngoing(w)
    \/ \E w \in Workers : RaceStartInsert(w)
    \/ \E w \in Workers, s \in Students, sid \in 1..Len(sessions),
          q \in QuestionIds, form \in RaceForms :
          RaceSubmitCheck(w, s, sid, q, form[1], form[2])
    \/ \E w \in Workers : RaceSubmitExisting(w)
    \/ \E w \in Workers : RaceSubmitInsert(w)

SpecRace == Init /\ [][NextRace]_vars

----------------------------------------------------------------------------
(* Two take_challenge requests at once. A request keeps the session object  *)
(* it loaded and the answers it read; its commit writes the columns whose   *)
(* new value differs from the loaded one (SQLAlchemy's unit of work).       *)

TakeRequest(pc, s, sid, loaded, correct) ==
    [pc |-> pc, student |-> s, id |-> sid, loaded |-> loaded, correct |-> correct]

\* lines 6434-6451: the session, its challenge and the questions are loaded
RaceTakeLoad(w, s, sid) ==
    /\ procs[w].pc = "idle"
    /\ IF TakeOutcome(s, sid) \in {"question", "completed"}
       THEN procs' = [procs EXCEPT
                        ![w] = TakeRequest("take_answers", s, sid, sessions[sid], 0)]
       ELSE UNCHANGED procs
    /\ UNCHANGED <<challenge, sessions, answers, clock, fix>>

\* lines 6453-6468: the answered_questions query and the search for the
\* first unanswered question
RaceTakeAnswers(w) ==
    /\ procs[w].pc = "take_answers"
    /\ IF CurrentQuestion(answers, procs[w].id, procs[w].loaded.challenge_id) # 0
       THEN Finish(w)
       ELSE procs' = [procs EXCEPT
                        ![w] = TakeRequest("take_complete", procs[w].student,
                                           procs[w].id, procs[w].loaded,
                                           CorrectAnswers(answers, procs[w].id))]
    /\ UNCHANGED <<challenge, sessions, answers, clock, fix>>

\* the row after the flush of an object loaded as `loaded` and now `object`
Flushed(row, loaded, object) ==
    [col \in DOMAIN row |->
        IF object[col] # loaded[col] THEN object[col] ELSE row[col]]

\* lines 6469-6481 for a request that loaded the row as `loaded` and counted
\* `correct` correct answers
RaceCompleteSession(tbl, loaded, correct, sid, now) ==
    LET c == loaded.challenge_id
        total == Cardinality(QuestionsOf(c))
        object == [loaded EXCEPT !.score = correct,
                                 !.percentage = PyRound(100 * correct, total),
                                 !.status = "completed",
                                 !.end_time = now]
        seen == [tbl EXCEPT ![sid] = object]
        pb == CalculateChallengePoints(seen, sid, challenge[c].time_limit_minutes)
        scored == [object EXCEPT !.points = pb.total, !.points_breakdown = <<pb>>]
    IN [tbl EXCEPT ![sid] = Flushed(tbl[sid], loaded, scored)]

RaceTakeComplete(w) ==
    /\ procs[w].pc = "take_complete"
    /\ sessions' = RaceCompleteSession(sessions, procs[w].loaded, procs[w].correct,
                                       procs[w].id, clock)
    /\ Finish(w)
    /\ UNCHANGED <<challenge, answers, clock, fix>>

NextRaceTake ==
    \/ Tick
    \/ \E s \in Students, c \in Challenges : StartChallenge(s, c)
    \/ \E s \in Students, sid \in 1..Len(sessions), q \in QuestionIds,
          form \in RaceForms :
          SubmitChallengeAnswer(s, sid, q, form[1], form[2])
    \/ \E w \in Workers, s \in Students, sid \in 1..Len(sessions) :
          RaceTakeLoad(w, s, sid)
    \/ \E w \in Workers : RaceTakeAnswers(w)
    \/ \E w \in Workers : RaceTakeComplete(w)

SpecRaceTake == Init /\ [][NextRaceTake]_vars

----------------------------------------------------------------------------
(* Requests of every student route at once: submit_challenge_answer and     *)
(* take_challenge cut as above, challenge_results run between their steps.  *)

\* challenge_results, lines 6611-6634, while other requests are in flight
RaceResults(w, s, sid) ==
    /\ procs[w].pc = "idle"
    /\ IF ResultsOutcome(s, sid) = "shown"
       THEN sessions' = [sessions EXCEPT
                            ![sid] = RecomputedSession(sessions[sid], answers, sid)]
       ELSE UNCHANGED sessions
    /\ UNCHANGED <<challenge, answers, clock, fix, procs>>

NextRaceAll ==
    \/ \E s \in Students, c \in Challenges : StartChallenge(s, c)
    \/ \E w \in Workers, s \in Students, sid \in 1..Len(sessions),
          q \in QuestionIds, form \in RaceForms :
          RaceSubmitCheck(w, s, sid, q, form[1], form[2])
    \/ \E w \in Workers : RaceSubmitExisting(w)
    \/ \E w \in Workers : RaceSubmitInsert(w)
    \/ \E w \in Workers, s \in Students, sid \in 1..Len(sessions) :
          RaceTakeLoad(w, s, sid)
    \/ \E w \in Workers : RaceTakeAnswers(w)
    \/ \E w \in Workers : RaceTakeComplete(w)
    \/ \E w \in Workers, s \in Students, sid \in 1..Len(sessions) :
          RaceResults(w, s, sid)

SpecRaceAll == Init /\ [][NextRaceAll]_vars

----------------------------------------------------------------------------
(* calculate_challenge_points over its inputs: the time limit of challenge  *)
(* 1, the time of the call, and the session, which is either in_progress    *)
(* with both questions answered (take_challenge scores it) or the object    *)
(* take_challenge passes at line 6477, completed with score and percentage. *)

MaxScoringTicks == 61
MaxPercentage == 100
\* int(time_limit) of the form, unvalidated, or None
TimeLimits == {-1, 0, 1, 4, 20, 40}

\* challenge_session at line 6477, after the assignments of lines 6471-6474
ScoredObject(s, c, score, percentage, end_time) ==
    [NewSession(s, c, 0) EXCEPT !.score = score,
                                !.percentage = percentage,
                                !.status = "completed",
                                !.end_time = end_time]

InitScoring ==
    /\ \E limit \in TimeLimits :
          challenge = [InitialChallenges EXCEPT ![1].time_limit_minutes = limit]
    /\ clock \in 0..MaxScoringTicks
    /\ \/ /\ sessions = <<NewSession(1, 1, 0)>>
          /\ \E a \in AnswerTexts :
                answers = {NewAnswer({}, 1, 1, a), NewAnswer({}, 1, 2, <<>>)}
       \/ /\ \E score \in 0..MaxAnswers, percentage \in 0..MaxPercentage :
                sessions = <<ScoredObject(1, 1, score, percentage, clock)>>
          /\ answers = {}
    /\ fix = <<>>
    /\ procs = [w \in Workers |-> NoRequest]

\* lines 6477-6481 on the object of line 6477
ScoreSession(sid) ==
    /\ SessionExists(sessions, sid)
    /\ sessions[sid].status = "completed"
    /\ sessions[sid].points_breakdown = <<>>
    /\ LET c == sessions[sid].challenge_id
           pb == CalculateChallengePoints(sessions, sid,
                                          challenge[c].time_limit_minutes)
       IN sessions' = [sessions EXCEPT ![sid].points = pb.total,
                                       ![sid].points_breakdown = <<pb>>]
    /\ UNCHANGED <<challenge, answers, clock, fix, procs>>

NextScoring ==
    \/ \E s \in Students, sid \in 1..Len(sessions) : TakeChallenge(s, sid)
    \/ \E sid \in 1..Len(sessions) : ScoreSession(sid)

SpecScoring == InitScoring /\ [][NextScoring]_vars

----------------------------------------------------------------------------
(* Requests one at a time *)

Web ==
    \/ \E s \in Students, c \in Challenges : StartChallenge(s, c)
    \/ \E s \in Students, sid \in 1..Len(sessions) : TakeChallenge(s, sid)
    \/ \E s \in Students, sid \in 1..Len(sessions), q \in QuestionIds,
          form \in Forms :
          SubmitChallengeAnswer(s, sid, q, form[1], form[2])
    \/ \E s \in Students, sid \in 1..Len(sessions) : ChallengeResults(s, sid)

Next ==
    \/ Tick
    \/ Web
    \/ \E sid \in 1..Len(sessions) : Abandon(sid)

Spec == Init /\ [][Next]_vars

NextFix ==
    \/ Next
    \/ FixStuckBegin
    \/ FixStuckStep

SpecFix == Init /\ [][NextFix]_vars

NextDelete ==
    \/ Web
    \/ \E c \in Challenges : ToggleChallengeStatus(c)
    \/ \E c \in Challenges : DeleteChallenge(c)

SpecDelete == Init /\ [][NextDelete]_vars

NextEdit ==
    \/ Web
    \/ \E c \in EditedChallenges, limit \in EditLimits,
          attempts \in EditAttempts, active \in BOOLEAN :
          EditChallenge(c, limit, attempts, active)

SpecEdit == Init /\ [][NextEdit]_vars

NextToggle ==
    \/ Next
    \/ \E c \in Challenges : ToggleChallengeStatus(c)

SpecToggle == Init /\ [][NextToggle]_vars

----------------------------------------------------------------------------
(* Properties                                                               *)

SessionIds == 1..Len(sessions)

Owner(sid) == sessions[sid].student_id

C1_ReachesQuery(sid, form) ==
    /\ sessions[sid].status # "completed"
    /\ form[1] # <<>> \/ form[2]

C2_OneAnswerPerQuestionRacing ==
    \A sid \in SessionIds, q \in QuestionIds :
        Cardinality(AnswersTo(answers, sid, q)) <= 1

\* C3: a student never has two in_progress sessions of one challenge, also
\* when two start requests of the student run at once.
C3_OneInProgress ==
    \A s \in Students, c \in Challenges :
        Cardinality(OngoingSessions(sessions, s, c)) <= 1

\* C4: a start by a student who has an in_progress session of the challenge
\* resumes that session, whatever max_attempts is and however many sessions
\* the student has.
C4_ResumesForEveryLimit ==
    \A s \in Students, c \in Challenges :
        OngoingSessions(sessions, s, c) # {}
            => /\ StartOutcome(s, c) = "resumed"
               /\ StartSessions(s, c) = OngoingSessions(sessions, s, c)

\* the student's ChallengeSession rows for the challenge, of every status
RowsOf(s, c) ==
    {i \in SessionIds : sessions[i].student_id = s /\ sessions[i].challenge_id = c}

AtLimit(s, c) ==
    challenge[c].max_attempts >= 1
        /\ Cardinality(RowsOf(s, c)) >= challenge[c].max_attempts

\* the session rows a step adds
Added == {i \in 1..Len(sessions') : i > Len(sessions)}

\* C5 as stated: a student with max_attempts or more rows for the challenge,
\* of whatever status, is denied with the attempt-limit message.
C5_LimitMessage ==
    \A s \in Students, c \in Challenges :
        AtLimit(s, c) => StartOutcome(s, c) = "limit"

\* C5: a student with max_attempts or more rows for the challenge, of
\* whatever status, is denied and no step adds a session row for the pair;
\* the denial carries the attempt-limit message when the challenge is active
\* and the not-available message when it is not.
C5_LimitDenies ==
    /\ [](\A s \in Students, c \in Challenges :
            AtLimit(s, c)
                => /\ StartOutcome(s, c) \in {"limit", "unavailable"}
                   /\ challenge[c].is_active => StartOutcome(s, c) = "limit"
                   /\ StartSessions(s, c) = {})
    /\ [][\A i \in Added :
            ~AtLimit(sessions'[i].student_id, sessions'[i].challenge_id)]_vars

\* C5 witness: both attempts of challenge 1 are used, one abandoned and one
\* completed, and a third start gets the attempt-limit message.
C5_ThirdStartDenied ==
    \E s \in Students :
        /\ \E i, j \in RowsOf(s, 1) : /\ sessions[i].status = "abandoned"
                                      /\ sessions[j].status = "completed"
        /\ StartOutcome(s, 1) = "limit"
        /\ ENABLED StartChallenge(s, 1)

C6_Denied(s, c) ==
    \/ ~challenge[c].is_active
    \/ {q \in QuestionIds : Question[q].challenge_id = c} = {}
    \/ AtLimit(s, c)

\* C6: a start of an inactive challenge, of a challenge without questions
\* or at the attempt limit is denied and leads to no session; a step that
\* adds a session row adds one, for a start that is not denied, with
\* status in_progress, score 0 and no end_time, and keeps the other rows.
C6_DeniedStartChangesNothing ==
    /\ [](\A s \in Students, c \in Challenges :
            C6_Denied(s, c)
                => /\ StartOutcome(s, c) \in {"unavailable", "no_questions", "limit"}
                   /\ StartSessions(s, c) = {})
    /\ [][/\ Len(sessions') \in {Len(sessions), Len(sessions) + 1}
          /\ \A i \in Added :
                /\ ~C6_Denied(sessions'[i].student_id, sessions'[i].challenge_id)
                /\ sessions'[i].status = "in_progress"
                /\ sessions'[i].score = 0
                /\ sessions'[i].end_time = NoTime
                /\ SubSeq(sessions', 1, Len(sessions)) = sessions]_vars

\* C6 witness: a session was created with the fields of the success path
\* and a start of a challenge that has since been made inactive is denied.
C6_CreatedAndDenied ==
    \E s \in Students, c \in Challenges, sid \in SessionIds :
        /\ sessions[sid].status = "in_progress"
        /\ sessions[sid].score = 0
        /\ sessions[sid].end_time = NoTime
        /\ ~challenge[c].is_active
        /\ RowsOf(s, c) = {}
        /\ StartOutcome(s, c) = "unavailable"
        /\ ENABLED StartChallenge(s, c)

\* the questions of the session's challenge
OwnQuestions(sid) ==
    {q \in QuestionIds : Question[q].challenge_id = sessions[sid].challenge_id}

\* those of them without a ChallengeAnswer row in the session
Unanswered(sid) ==
    {q \in OwnQuestions(sid) :
        \A r \in answers : ~(r.session_id = sid /\ r.question_id = q)}

\* C7: for an in_progress session take_challenge serves the question of the
\* session's challenge with the lowest order_index among those without an
\* answer in the session, and takes the completion path exactly when every
\* question of the challenge has an answer in the session.
C7_ServesLowestUnanswered ==
    \A sid \in SessionIds :
        sessions[sid].status = "in_progress"
            => LET q == TakeQuestion(Owner(sid), sid)
               IN /\ TakeOutcome(Owner(sid), sid) \in {"question", "completed"}
                  /\ TakeOutcome(Owner(sid), sid) = "completed"
                        <=> Unanswered(sid) = {}
                  /\ Unanswered(sid) # {}
                        => /\ q \in Unanswered(sid)
                           /\ \A y \in Unanswered(sid) :
                                Question[q].order_index <= Question[y].order_index

\* C7 witness: the first question of challenge 1 is answered, the second is
\* not, and take_challenge serves the second.
C7_SecondQuestionServed ==
    \E sid \in SessionIds :
        /\ sessions[sid].status = "in_progress"
        /\ sessions[sid].challenge_id = 1
        /\ Unanswered(sid) = {2}
        /\ TakeQuestion(Owner(sid), sid) = 2
        /\ ENABLED TakeChallenge(Owner(sid), sid)

\* C8: a session with fewer of its challenge's n questions answered than n
\* is not completed by any step and is left as it is by a take_challenge
\* step and by a step that saves an answer; a take_challenge step of its
\* student with all n answered completes it; a completed session has each
\* of its n questions answered once.
C8_CompletesAfterAllAnswered ==
    /\ [](\A sid \in SessionIds :
            sessions[sid].status = "completed"
                => /\ Unanswered(sid) = {}
                   /\ \A q \in OwnQuestions(sid) :
                        Cardinality(AnswersTo(answers, sid, q)) = 1)
    /\ [][\A sid \in SessionIds :
            sessions[sid].status = "in_progress" /\ Unanswered(sid) # {}
                => /\ sessions'[sid].status # "completed"
                   /\ answers' # answers \/ TakeChallenge(Owner(sid), sid)
                        => sessions'[sid] = sessions[sid]]_vars
    /\ [][\A sid \in SessionIds :
            /\ sessions[sid].status = "in_progress"
            /\ Unanswered(sid) = {}
            /\ TakeChallenge(Owner(sid), sid)
            => sessions'[sid].status = "completed"]_vars

\* C8 witness: a session of the two-question challenge completed with
\* exactly its two questions answered.
C8_CompletedAfterTwoSubmits ==
    \E sid \in SessionIds :
        /\ sessions[sid].status = "completed"
        /\ sessions[sid].challenge_id = 1
        /\ AnsweredQuestionIds(answers, sid) = {1, 2}
        /\ Cardinality(AnswersOfSession(answers, sid)) = 2

\* C9: a completed session has score = the number of its answers with
\* is_correct, percentage = round(score / total_questions * 100) and an
\* end_time, with 0 <= score <= total_questions and 0 <= percentage <= 100.
C9_ScoreWithinTotal ==
    \A sid \in SessionIds :
        sessions[sid].status = "completed"
            => LET total == Cardinality(OwnQuestions(sid))
                   right == {r \in answers : r.session_id = sid /\ r.is_correct}
               IN /\ sessions[sid].score = Cardinality(right)
                  /\ sessions[sid].percentage
                        = PyRound(100 * sessions[sid].score, total)
                  /\ sessions[sid].end_time # NoTime
                  /\ 0 <= sessions[sid].score /\ sessions[sid].score <= total
                  /\ 0 <= sessions[sid].percentage
                  /\ sessions[sid].percentage <= 100

\* C10: take_challenge on a completed session redirects to the results and
\* leaves the row as it is; score, percentage, end_time, points and
\* points_breakdown of a completed session stay what the completing step
\* wrote, so the points are awarded once.
C10_TakeAfterCompletionChangesNothing ==
    /\ [](\A sid \in SessionIds :
            sessions[sid].status = "completed"
                => TakeOutcome(Owner(sid), sid) = "results")
    /\ [][\A sid \in SessionIds :
            sessions[sid].status = "completed"
                => /\ TakeChallenge(Owner(sid), sid) => sessions' = sessions
                   /\ sessions'[sid].score = sessions[sid].score
                   /\ sessions'[sid].percentage = sessions[sid].percentage
                   /\ sessions'[sid].end_time = sessions[sid].end_time
                   /\ sessions'[sid].points = sessions[sid].points
                   /\ sessions'[sid].points_breakdown
                        = sessions[sid].points_breakdown]_vars

\* C10 witness: a session completed at an earlier time, with its points
\* awarded, on which take_challenge is called again.
C10_TakeOnCompleted ==
    \E sid \in SessionIds :
        /\ sessions[sid].status = "completed"
        /\ sessions[sid].end_time < clock
        /\ sessions[sid].points >= BasePoints
        /\ TakeOutcome(Owner(sid), sid) = "results"
        /\ ENABLED TakeChallenge(Owner(sid), sid)

\* C11: once a take_challenge request has completed a session, no step of
\* another take_challenge request in flight changes the end_time, points or
\* points_breakdown it wrote.
C11_CompletionAppliedOnce ==
    [][\A sid \in SessionIds :
          sessions[sid].status = "completed"
              => /\ sessions'[sid].end_time = sessions[sid].end_time
                 /\ sessions'[sid].points = sessions[sid].points
                 /\ sessions'[sid].points_breakdown
                        = sessions[sid].points_breakdown]_vars

\* C12: a submit for a session that is completed or abandoned saves no
\* answer, whatever the question and the answer.
C12_InactiveSessionRejects ==
    \A sid \in SessionIds :
        sessions[sid].status \in {"completed", "abandoned"}
            => \A s \in Students, q \in QuestionIds, form \in Forms :
                  SubmitOutcome(s, sid, q, form[1], form[2]) # "saved"

\* C13: no step moves a session out of completed or abandoned, and no step
\* changes the score, percentage, end_time or points of an abandoned
\* session.
C13_TerminalStatesSticky ==
    [][\A sid \in SessionIds :
          /\ sessions[sid].status \in {"completed", "abandoned"}
                => sessions'[sid].status = sessions[sid].status
          /\ sessions[sid].status = "abandoned"
                => /\ sessions'[sid].score = sessions[sid].score
                   /\ sessions'[sid].percentage = sessions[sid].percentage
                   /\ sessions'[sid].end_time = sessions[sid].end_time
                   /\ sessions'[sid].points = sessions[sid].points]_vars

\* C14: once a session is completed no step of any request, in any
\* interleaving, changes its score or its percentage.
C14_ScoreFixedAfterCompletion ==
    [][\A sid \in SessionIds :
          sessions[sid].status = "completed"
              => /\ sessions'[sid].score = sessions[sid].score
                 /\ sessions'[sid].percentage = sessions[sid].percentage]_vars

\* C15: once a session is completed its points and its points_breakdown
\* never change, whatever sessions start, complete or are scored afterwards.
C15_PointsNeverClawedBack ==
    [][\A sid \in SessionIds :
          sessions[sid].status = "completed"
              => /\ sessions'[sid].points = sessions[sid].points
                 /\ sessions'[sid].points_breakdown
                        = sessions[sid].points_breakdown]_vars

\* C16: a session has its end_time set exactly when its status is completed
\* or abandoned; every in_progress session has no end_time.
C16_EndTimeIffTerminal ==
    \A sid \in SessionIds :
        (sessions[sid].end_time # NoTime)
            <=> (sessions[sid].status \in {"completed", "abandoned"})

\* one session completed with its end_time, another still running without
C16_CompletedBesideRunning ==
    \E i, j \in SessionIds :
        /\ sessions[i].status = "completed"
        /\ sessions[i].end_time # NoTime
        /\ sessions[j].status = "in_progress"
        /\ sessions[j].end_time = NoTime

\* C17: every completed session, completed by take_challenge or by
\* fix_stuck_sessions, stores one points_breakdown with base_points = 50,
\* correctness_bonus = 10 * score and total = the sum of its five components,
\* and its points equal that total.
C17_BreakdownStored ==
    \A sid \in SessionIds :
        sessions[sid].status = "completed"
            => /\ Len(sessions[sid].points_breakdown) = 1
               /\ LET pb == sessions[sid].points_breakdown[1] IN
                  /\ pb.base_points = 50
                  /\ pb.correctness_bonus = 10 * sessions[sid].score
                  /\ pb.total = pb.base_points + pb.correctness_bonus
                                  + pb.speed_bonus + pb.completion_bonus
                                  + pb.first_completion_bonus
                  /\ sessions[sid].points = pb.total

\* a completed session with its stored breakdown
Scored(sid) ==
    sessions[sid].status = "completed" /\ sessions[sid].points_breakdown # <<>>

Elapsed(sid) == Seconds(sessions[sid].end_time) - Seconds(sessions[sid].start_time)

LimitSeconds(sid) == challenge[sessions[sid].challenge_id].time_limit_minutes * 60

\* C18: the speed bonus is 0 without a time limit; otherwise it is 100 when
\* 2*elapsed <= limit, else 50 when 10*elapsed <= 7*limit, else 25 when
\* 100*elapsed <= 85*limit, else 0; it never grows with the elapsed time, and
\* a session answered in full after its limit is completed with speed bonus 0.
C18_SpeedBonusTiers ==
    /\ \A sid \in SessionIds :
          Scored(sid) =>
              LET bonus == sessions[sid].points_breakdown[1].speed_bonus
                  elapsed == Elapsed(sid)
                  limit == LimitSeconds(sid)
              IN /\ limit = 0 => bonus = 0
                 /\ limit # 0 =>
                       /\ bonus = 100 <=> 2 * elapsed <= limit
                       /\ bonus = 50 <=> /\ 2 * elapsed > limit
                                         /\ 10 * elapsed <= 7 * limit
                       /\ bonus = 25 <=> /\ 10 * elapsed > 7 * limit
                                         /\ 100 * elapsed <= 85 * limit
                       /\ bonus = 0 <=> 100 * elapsed > 85 * limit
    /\ \A c \in Challenges, e \in 0..(MaxScoringTicks - 1) :
          SpeedBonus(challenge[c].time_limit_minutes, 0, e)
              >= SpeedBonus(challenge[c].time_limit_minutes, 0, e + 1)
    /\ \A sid \in SessionIds :
          /\ sessions[sid].status = "in_progress"
          /\ Unanswered(sid) = {}
          /\ Seconds(clock) - Seconds(sessions[sid].start_time) > LimitSeconds(sid)
          => TakeOutcome(Owner(sid), sid) = "completed"

\* C19: the completion bonus depends on the percentage alone: 50 from 90,
\* 30 from 80, 20 from 70, 10 from 60, otherwise 0; one tier applies and the
\* bonus never falls as the percentage grows.
C19_CompletionTiers ==
    /\ \A sid \in SessionIds :
          Scored(sid) =>
              LET bonus == sessions[sid].points_breakdown[1].completion_bonus
                  percentage == sessions[sid].percentage
              IN /\ bonus \in {0, 10, 20, 30, 50}
                 /\ bonus = 50 <=> percentage >= 90
                 /\ bonus = 30 <=> percentage >= 80 /\ percentage < 90
                 /\ bonus = 20 <=> percentage >= 70 /\ percentage < 80
                 /\ bonus = 10 <=> percentage >= 60 /\ percentage < 70
                 /\ bonus = 0 <=> percentage < 60
    /\ \A p \in 0..(MaxPercentage - 1) :
          CompletionBonus(p) <= CompletionBonus(p + 1)

\* a session scored at the lowest boundary
C19_ScoredAtSixty ==
    \E sid \in SessionIds :
        /\ Scored(sid)
        /\ sessions[sid].percentage = 60
        /\ sessions[sid].points_breakdown[1].completion_bonus = 10

\* C20: a session is scored with first_completion_bonus = 100 exactly when
\* no other session of its challenge, of any student, is completed with an
\* end_time strictly earlier than its own; otherwise with 0.
C20_FirstCompletionBonus ==
    [][\A sid \in SessionIds :
          sessions[sid].status # "completed" /\ sessions'[sid].status = "completed"
              => LET bonus == sessions'[sid].points_breakdown[1].first_completion_bonus
                     earlier == {i \in SessionIds \ {sid} :
                                    /\ sessions'[i].challenge_id
                                           = sessions'[sid].challenge_id
                                    /\ sessions'[i].status = "completed"
                                    /\ sessions'[i].end_time
                                           < sessions'[sid].end_time}
                 IN /\ bonus \in {0, 100}
                    /\ bonus = 100 <=> earlier = {}]_vars

\* a second completion of a challenge, scored without the bonus
C20_SecondCompletion ==
    \E i, j \in SessionIds :
        /\ Scored(i) /\ Scored(j)
        /\ sessions[i].challenge_id = sessions[j].challenge_id
        /\ sessions[i].end_time < sessions[j].end_time
        /\ sessions[i].points_breakdown[1].first_completion_bonus = 100
        /\ sessions[j].points_breakdown[1].first_completion_bonus = 0

\* is_correct as the claim states it, a missing key matching no answer
ReferenceIsCorrect(q, answer) ==
    /\ answer # <<>>
    /\ IF q.question_type = "multiple_choice"
       THEN /\ q.correct_option \in {"A", "B", "C", "D"}
            /\ answer = CorrectOptionText(q)
       ELSE /\ q.answer # None
            /\ StripLower(answer) = StripLower(q.answer)

\* C21: every recorded is_correct equals the reference validator, and the
\* validation of a submit that passed the checks before it never ends in the
\* error outcome, so the submission is recorded.
C21_ValidatorNeverRaises ==
    /\ \A r \in answers :
          r.is_correct = ReferenceIsCorrect(Question[r.question_id], r.answer)
    /\ \A sid \in SessionIds, q \in QuestionIds, form \in Forms :
          /\ sessions[sid].status = "in_progress"
          /\ form[1] # <<>> \/ form[2]
          => SubmitCheck(Owner(sid), sid, q, form[1], form[2]) = "pass"

\* C22: for an unanswered question of an in_progress session's challenge an
\* auto-submit with any captured text, the empty one included, is saved as
\* one row holding that text, the empty text as incorrect.
C22_ExpiredSubmitRecorded ==
    \A sid \in SessionIds :
        sessions[sid].status = "in_progress"
            => \A q \in Unanswered(sid), a \in AnswerTexts :
                  /\ SubmitOutcome(Owner(sid), sid, q, a, TRUE) = "saved"
                  /\ NewAnswer(answers, sid, q, a).answer = a
                  /\ a = <<>> => ~NewAnswer(answers, sid, q, a).is_correct

\* C23: a step that adds an answer adds exactly one row and leaves every
\* session as it was; a session becomes completed only in a step of
\* take_challenge, which adds no answer.
C23_SubmitLeavesSession ==
    [][/\ answers' # answers
          => /\ sessions' = sessions
             /\ answers \subseteq answers'
             /\ Cardinality(answers' \ answers) = 1
       /\ \A sid \in SessionIds :
             sessions[sid].status # "completed" /\ sessions'[sid].status = "completed"
                 => /\ answers' = answers
                    /\ TakeOutcome(Owner(sid), sid) = "completed"]_vars

\* every question answered, the session still in_progress
C23_AnsweredNotYetCompleted ==
    \E sid \in SessionIds :
        /\ sessions[sid].status = "in_progress"
        /\ AnswersOfSession(answers, sid) # {}
        /\ Unanswered(sid) = {}

\* C24: take_challenge, submit_challenge_answer and challenge_results called
\* by a student who does not own the session end in the access-denied
\* redirect, the outcome that inserts no answer and writes no session.
C24_OnlyOwnerWrites ==
    \A sid \in SessionIds : \A s \in Students \ {Owner(sid)} :
        /\ TakeOutcome(s, sid) = "denied"
        /\ ResultsOutcome(s, sid) = "denied"
        /\ \A q \in QuestionIds, form \in Forms :
              SubmitOutcome(s, sid, q, form[1], form[2]) = "denied"

\* a session its owner could complete and answer, another student not
C24_OwnerCouldWrite ==
    \E i, j \in SessionIds, s \in Students :
        /\ s # Owner(i) /\ s # Owner(j)
        /\ TakeOutcome(Owner(i), i) = "completed"
        /\ TakeOutcome(s, i) = "denied"
        /\ \E q \in QuestionIds :
              /\ SubmitOutcome(Owner(j), j, q, <<"Y">>, FALSE) = "saved"
              /\ SubmitOutcome(s, j, q, <<"Y">>, FALSE) = "denied"

\* C25: a challenge that a session refers to is never deleted, and the
\* sessions and the answers that exist survive every lecturer operation.
C25_ReferencedChallengeKept ==
    [][/\ \A c \in Challenges :
             /\ challenge[c].exists
             /\ \E sid \in SessionIds :
                   SessionExists(sessions, sid) /\ sessions[sid].challenge_id = c
             => challenge'[c].exists
       /\ \A sid \in SessionIds :
             SessionExists(sessions, sid) => SessionExists(sessions', sid)
       /\ answers \subseteq answers']_vars

\* C26: while a session of a challenge is in_progress the challenge's
\* time_limit_minutes, max_attempts and question set do not change.
C26_ChallengeFrozenDuringAttempt ==
    [][\A c \in Challenges :
          (\E sid \in SessionIds :
              /\ sessions[sid].challenge_id = c
              /\ sessions[sid].status = "in_progress")
          => /\ challenge'[c].time_limit_minutes = challenge[c].time_limit_minutes
             /\ challenge'[c].max_attempts = challenge[c].max_attempts
             /\ {q \in QuestionIds : Question[q].challenge_id = c
                                        /\ challenge'[c].exists}
                   = QuestionsOf(c)]_vars

\* C27: every answer of a session is for a question of the session's
\* challenge, so a session has no more answers than its challenge has
\* questions.
C27_AnswersWithinChallenge ==
    \A sid \in SessionIds :
        /\ \A r \in AnswersOfSession(answers, sid) :
              Question[r.question_id].challenge_id = sessions[sid].challenge_id
        /\ Cardinality(AnswersOfSession(answers, sid))
               <= Cardinality(QuestionsOf(sessions[sid].challenge_id))

\* C28: with max_attempts fixed at N >= 1 a student never has more than N
\* sessions of the challenge, also when start requests of the student run at
\* once.
C28_RowsWithinLimit ==
    \A s \in Students, c \in Challenges :
        challenge[c].max_attempts >= 1
            => Cardinality(SessionsOf(sessions, s, c)) <= challenge[c].max_attempts

\* C29: of the completed sessions of one challenge at most one holds
\* first_completion_bonus = 100, however the completions interleave and also
\* when two sessions are completed at the same clock value.
C29_OneFirstCompletion ==
    \A c \in Challenges :
        Cardinality({sid \in SessionIds :
                        /\ sessions[sid].challenge_id = c
                        /\ Scored(sid)
                        /\ sessions[sid].points_breakdown[1].first_completion_bonus
                               = 100}) <= 1

\* C30: fix_stuck_sessions completes an in_progress session exactly when
\* take_challenge by its owner would, and then stores the same row.
C30_FixAgreesWithTake ==
    \A sid \in SessionIds :
        sessions[sid].status = "in_progress"
            => /\ FixShouldComplete(sessions, answers, sid)
                      <=> TakeOutcome(Owner(sid), sid) = "completed"
               /\ FixShouldComplete(sessions, answers, sid)
                      => FixCompleteSession(sessions, answers, sid, clock)[sid]
                             = CompleteSession(sessions, answers, sid, clock)[sid]

====
